---- MODULE Spec2Model ----
(***************************************************************************)
(* asn-memo: the SM-2 scheduler (src/spaced_repetition.py), the progress   *)
(* file (src/progress.py) and the host's store ownership (src/app.py).     *)
(*                                                                         *)
(* Numbers.  ease_factor is a Python float; every value the scheduler      *)
(* computes is a sum of hundredths, so the model keeps it as an integer    *)
(* number of hundredths (2.5 is 250).  Time is an integer number of clock  *)
(* ticks, TicksPerDay ticks to the day; day numbers are proleptic ordinals *)
(* (date.toordinal()), so that the range of datetime is the real one.      *)
(***************************************************************************)
EXTENDS Integers, Sequences, FiniteSets, TLC

VARIABLES
    card_states,  \* Scheduler.card_states: card_id -> CardState
    now,          \* the wall clock datetime.now() reads, in ticks
    file,         \* the progress file on disk
    call,         \* the latest review_card call: arguments, prior state, outcome
    reviews,      \* number of review_card calls made so far
    ratings,      \* per card, the ratings passed to review_card since the store was empty
    study_screen, \* the StudyScreen on the screen stack, or NoScreen
    tmp_file,     \* the temporary file ProgressManager.save writes (progress.tmp)
    save_pc,      \* where ProgressManager.save stands: "idle", "writing", "written"
    reset_screen  \* TRUE while the ResetConfirmScreen is on the screen stack

vars == <<card_states, now, file, call, reviews, ratings,
          study_screen, tmp_file, save_pc, reset_screen>>

\* What the scheduler-level operations leave alone.
host_vars == <<study_screen, tmp_file, save_pc, reset_screen>>

----------------------------------------------------------------------------
(* Bounds of the model *)

MaxReviews == 2
MaxElapsed == 2
TicksPerDay == 2
StartDay == 739926
LongRun == 14
MaxIds == 3
MaxLimit == 3
MaxSessionReviews == 11
MaxShortReviews == 4

(* datetime.min and datetime.max as day ordinals: 0001-01-01 and 9999-12-31 *)
MinOrdinal == 1
MaxOrdinal == 3652059

StartTime == StartDay * TicksPerDay

CardIds == {"174", "3356"}

----------------------------------------------------------------------------
(* class Rating(IntEnum) *)

AGAIN == 0
HARD == 2
GOOD == 3
EASY == 5

Rating == {AGAIN, HARD, GOOD, EASY}

----------------------------------------------------------------------------
(* class CardState *)

None == <<>>
Some(t) == <<t>>

DEFAULT_EASE == 250
MIN_EASE == 130

\* CardState(card_id=card_id): the dataclass defaults; next_review is
\* default_factory=datetime.now, read when the object is built.
CardState(card_id, t) ==
    [card_id |-> card_id,
     ease_factor |-> DEFAULT_EASE,
     interval |-> 0,
     repetitions |-> 0,
     next_review |-> t,
     last_reviewed |-> None]

isoformat_date_only(t) == [date |-> t \div TicksPerDay, time |-> 0]

\* datetime.isoformat(): the text "<date>T<time of day>", kept as its two parts.
isoformat(t) == [date |-> t \div TicksPerDay, time |-> t % TicksPerDay]

\* datetime.fromisoformat
fromisoformat(text) == text.date * TicksPerDay + text.time

\* CardState.is_due
is_due(state, t) == t >= state.next_review

\* CardState.to_dict
to_dict(state) ==
    [card_id |-> state.card_id,
     ease_factor |-> state.ease_factor,
     interval |-> state.interval,
     repetitions |-> state.repetitions,
     next_review |-> isoformat(state.next_review),
     last_reviewed |-> IF state.last_reviewed # None
                       THEN Some(isoformat(state.last_reviewed[1]))
                       ELSE None]

\* The keys from_dict reads with data[...]: a missing one raises KeyError.
RequiredKeys == {"card_id", "ease_factor", "interval", "repetitions", "next_review"}

\* JSON values that are not what from_dict expects: a text that is no
\* ISO-8601 time, and a value that is no text (a number).
GarbageText == [text |-> "garbage"]
NotText == [number |-> 5]

is_iso_text(value) == DOMAIN value = {"date", "time"}

\* datetime.fromisoformat(value): "none" when it returns, else the exception:
\* ValueError for a text it cannot parse, TypeError for a value that is no str.
fromisoformat_error(value) ==
    IF is_iso_text(value) THEN "none"
    ELSE IF value = GarbageText THEN "ValueError"
    ELSE "TypeError"

\* CardState.from_dict(data): "none" when it returns, else the exception it
\* raises.  The arguments of cls(...) are evaluated in the order written.
from_dict_error(data) ==
    IF ~(RequiredKeys \subseteq DOMAIN data) THEN "KeyError"
    ELSE IF fromisoformat_error(data.next_review) # "none"
         THEN fromisoformat_error(data.next_review)
    ELSE IF "last_reviewed" \in DOMAIN data /\ data.last_reviewed # None
         THEN fromisoformat_error(data.last_reviewed[1])
    ELSE "none"

from_dict_raises(data) == from_dict_error(data) # "none"

\* CardState.from_dict: no range check on any field; last_reviewed is read
\* with data.get and is None when missing or null.
from_dict(data) ==
    [card_id |-> data.card_id,
     ease_factor |-> data.ease_factor,
     interval |-> data.interval,
     repetitions |-> data.repetitions,
     next_review |-> fromisoformat(data.next_review),
     last_reviewed |-> IF "last_reviewed" \in DOMAIN data
                          /\ data.last_reviewed # None
                       THEN Some(fromisoformat(data.last_reviewed[1]))
                       ELSE None]

----------------------------------------------------------------------------
(* sm2_algorithm *)

Max(a, b) == IF a >= b THEN a ELSE b

ease_delta_linear(rating_value) == 10 - (5 - rating_value) * 8

\* 0.1 - (5 - q) * (0.08 + (5 - q) * 0.02), in hundredths
ease_delta(rating_value) ==
    10 - (5 - rating_value) * (8 + (5 - rating_value) * 2)

new_ease_unclamped(state, rating) == state.ease_factor + ease_delta(rating)

new_ease(state, rating) ==
    Max(MIN_EASE, state.ease_factor + ease_delta(rating))

\* round(interval * ease_factor).  The product is exact in hundredths.  Away
\* from a tie the float product rounds as the exact one does.  On an exact
\* tie (.50) Python rounds half to even when the float product is the exact
\* one, but an ease_factor that was reached by float additions is off by an
\* ulp either way (45 * 2.9000000000000004 rounds to 131, not 130), so a tie
\* may go either way: the result is one of the set.
round_product(interval, ease_factor) ==
    LET p == interval * ease_factor
        q == p \div 100
        r == p % 100
    IN  IF r < 50 THEN {q}
        ELSE IF r > 50 THEN {q + 1}
        ELSE {q, q + 1}

new_interval_new_ease(state, rating) ==
    IF rating >= GOOD
    THEN IF state.repetitions = 0 THEN {1}
         ELSE IF state.repetitions = 1 THEN {6}
         ELSE round_product(state.interval,
                            Max(MIN_EASE, state.ease_factor + ease_delta(rating)))
    ELSE {1}

new_interval_swapped(state, rating) ==
    IF rating >= GOOD
    THEN IF state.repetitions = 0 THEN {6}
         ELSE IF state.repetitions = 1 THEN {1}
         ELSE round_product(state.interval, state.ease_factor)
    ELSE {1}

new_interval_no_six(state, rating) ==
    IF rating >= GOOD
    THEN IF state.repetitions = 0 THEN {1}
         ELSE round_product(state.interval, state.ease_factor)
    ELSE {1}

new_interval(state, rating) ==
    IF rating >= GOOD
    THEN IF state.repetitions = 0 THEN {1}
         ELSE IF state.repetitions = 1 THEN {6}
         ELSE round_product(state.interval, state.ease_factor)
    ELSE {1}

new_repetitions_hard_passes(state, rating) ==
    IF rating >= HARD THEN state.repetitions + 1 ELSE 0

new_repetitions(state, rating) ==
    IF rating >= GOOD THEN state.repetitions + 1 ELSE 0

DayOf(t) == t \div TicksPerDay

\* datetime.now() + timedelta(days=new_interval) raises OverflowError when the
\* sum leaves datetime.min .. datetime.max.
date_overflow(t, days) ==
    \/ DayOf(t) + days > MaxOrdinal
    \/ DayOf(t) + days < MinOrdinal

\* The returned CardState: t1 is the clock at line 97, t2 the clock at line 105.
sm2_algorithm(state, rating, interval, t1, t2) ==
    [card_id |-> state.card_id,
     ease_factor |-> new_ease(state, rating),
     interval |-> interval,
     repetitions |-> new_repetitions(state, rating),
     next_review |-> t1 + interval * TicksPerDay,
     last_reviewed |-> Some(t2)]

----------------------------------------------------------------------------
(* The progress file *)

EmptyStore == [c \in {} |-> None]

AbsentFile == [kind |-> "absent", cards |-> EmptyStore]
MalformedFile == [kind |-> "malformed", cards |-> EmptyStore]

\* Per-card records a progress file may hold.  from_dict range-checks
\* nothing, so a record written by hand or by another tool loads as it is.
FileRecords ==
    { [ease_factor |-> 170, interval |-> 3, repetitions |-> 1,
       next_review |-> isoformat(StartTime - TicksPerDay),
       last_reviewed |-> None],
      [ease_factor |-> 236, interval |-> 6, repetitions |-> 2,
       next_review |-> isoformat(StartTime + 1),
       last_reviewed |-> Some(isoformat(StartTime + 1 - 6 * TicksPerDay))],
      [ease_factor |-> 250, interval |-> 0, repetitions |-> 2,
       next_review |-> isoformat(StartTime), last_reviewed |-> None],
      [ease_factor |-> 100, interval |-> 2, repetitions |-> -1,
       next_review |-> isoformat(StartTime - 1), last_reviewed |-> None] }

\* A record with a required field missing ("interval").
BrokenRecord ==
    [ease_factor |-> 250, repetitions |-> 0,
     next_review |-> isoformat(StartTime)]

FileEntries == FileRecords \cup {BrokenRecord}

Files ==
    {AbsentFile, MalformedFile} \cup
    { [kind |-> "json", cards |-> cs] :
        cs \in UNION { [S -> FileEntries] : S \in SUBSET CardIds } }

\* Contents of a progress file that no save of this program writes.
\* UndecodableFile: bytes that are no UTF-8 text; TopLevelValueFile: a JSON
\* document that is no object ([], 5, null); CardsValueFile: an object whose
\* "cards" is no object.
UndecodableFile == [kind |-> "undecodable", cards |-> EmptyStore]
TopLevelValueFile == [kind |-> "json_value", cards |-> EmptyStore]
CardsValueFile == [kind |-> "json_cards_value", cards |-> EmptyStore]

\* A per-card entry that is no object (a number).
NotAnObject == [number |-> 5]

\* Per-card records with a field that cannot be parsed.
UnparsableRecords ==
    { [ease_factor |-> 250, interval |-> 1, repetitions |-> 1,
       next_review |-> GarbageText, last_reviewed |-> None],
      [ease_factor |-> 250, interval |-> 1, repetitions |-> 1,
       next_review |-> NotText, last_reviewed |-> None],
      [ease_factor |-> 250, interval |-> 1, repetitions |-> 1,
       next_review |-> isoformat(StartTime),
       last_reviewed |-> Some(GarbageText)],
      [ease_factor |-> 250, interval |-> 1, repetitions |-> 1,
       next_review |-> isoformat(StartTime),
       last_reviewed |-> Some(NotText)] }

LoadEntries == FileEntries \cup UnparsableRecords \cup {NotAnObject}

LoadFiles ==
    {AbsentFile, MalformedFile, UndecodableFile, TopLevelValueFile,
     CardsValueFile} \cup
    { [kind |-> "json", cards |-> cs] :
        cs \in UNION { [S -> LoadEntries] : S \in SUBSET CardIds } }

WithCardId_setdefault(card_id, state_data) ==
    [k \in DOMAIN state_data \cup {"card_id"} |->
        IF k \in DOMAIN state_data THEN state_data[k] ELSE card_id]

\* ProgressManager.load, the per-entry step: state_data["card_id"] = card_id
WithCardId(card_id, state_data) ==
    [k \in DOMAIN state_data \cup {"card_id"} |->
        IF k = "card_id" THEN card_id ELSE state_data[k]]

\* The exception one entry of data["cards"] ends with, "none" when it is
\* stored: state_data["card_id"] = card_id is a TypeError on a value that is
\* no object.
entry_error(card_id, state_data) ==
    IF state_data = NotAnObject THEN "TypeError"
    ELSE from_dict_error(WithCardId(card_id, state_data))

\* ProgressManager.load raises: json.load's UnicodeDecodeError is no
\* JSONDecodeError; data.get and .items() are outside every try; the
\* per-entry try catches KeyError and ValueError only.
load_raises(f) ==
    \/ f.kind \in {"undecodable", "json_value", "json_cards_value"}
    \/ /\ f.kind = "json"
       /\ \E c \in DOMAIN f.cards :
              entry_error(c, f.cards[c]) \notin {"none", "KeyError", "ValueError"}

\* ProgressManager.load, when it returns
load(f) ==
    IF f.kind = "absent" THEN EmptyStore
    ELSE IF f.kind = "malformed" THEN EmptyStore
    ELSE LET ok == {c \in DOMAIN f.cards : entry_error(c, f.cards[c]) = "none"}
         IN  [c \in ok |-> from_dict(WithCardId(c, f.cards[c]))]

\* ProgressManager.save, the per-entry step: to_dict, then del state_dict["card_id"]
WithoutCardId(state_dict) ==
    [k \in DOMAIN state_dict \ {"card_id"} |-> state_dict[k]]

\* ProgressManager.save: the file that the rename leaves
saved(states) ==
    [kind |-> "json",
     cards |-> [c \in DOMAIN states |-> WithoutCardId(to_dict(states[c]))]]

----------------------------------------------------------------------------
(* Scheduler *)

NoCall == [op |-> "none"]

\* No StudyScreen is mounted.
NoScreen == [mounted |-> FALSE]

\* Scheduler.get_state
get_state(card_id) ==
    IF card_id \in DOMAIN card_states THEN Some(card_states[card_id]) ELSE None

\* self.card_states.get(card_id, CardState(card_id=card_id))
current_state(card_id) ==
    IF card_id \in DOMAIN card_states
    THEN card_states[card_id]
    ELSE CardState(card_id, now)

Upsert_alone(states, card_id, new_state) == [c \in {card_id} |-> new_state]

\* self.card_states[card_id] = new_state
Upsert(states, card_id, new_state) ==
    [c \in DOMAIN states \cup {card_id} |->
        IF c = card_id THEN new_state ELSE states[c]]

\* Scheduler.review_card(card_id, rating); the clock moves on by d ticks
\* between the two datetime.now() reads of sm2_algorithm.
review_card(card_id, rating, d) ==
    LET state == current_state(card_id)
    IN  \E interval \in new_interval(state, rating) :
          /\ reviews' = reviews + 1
          /\ ratings' = Upsert(ratings, card_id,
                                Append(IF card_id \in DOMAIN ratings
                                       THEN ratings[card_id] ELSE <<>>, rating))
          /\ IF date_overflow(now, interval)
             THEN /\ call' = [op |-> "review_card", card_id |-> card_id,
                              rating |-> rating,
                              present |-> card_id \in DOMAIN card_states,
                              prior |-> state, raised |-> TRUE,
                              result |-> state]
                  /\ UNCHANGED <<card_states, now>>
             ELSE LET new_state ==
                          sm2_algorithm(state, rating, interval, now, now + d)
                  IN  /\ card_states' = Upsert(card_states, card_id, new_state)
                      /\ now' = now + d
                      /\ call' = [op |-> "review_card", card_id |-> card_id,
                                  rating |-> rating,
                                  present |-> card_id \in DOMAIN card_states,
                                  prior |-> state, raised |-> FALSE,
                                  result |-> new_state]


\* The orders in which self.card_states.items() may run through the keys: a
\* dict keeps insertion order, which the store of the model does not record,
\* so every order of the keys is taken.
ItemOrders(states) ==
    LET n == Cardinality(DOMAIN states)
    IN  {items \in [1..n -> DOMAIN states] :
            \A i, j \in 1..n : i # j => items[i] # items[j]}

\* list.sort(key=next_review), one element at a time: the sort is stable, an
\* element goes behind every element whose key is not greater.
RECURSIVE insert_by_next_review(_, _, _)
insert_by_next_review(sorted, card_id, states) ==
    IF sorted = <<>> THEN <<card_id>>
    ELSE LET last == sorted[Len(sorted)]
         IN  IF states[last].next_review <= states[card_id].next_review
             THEN Append(sorted, card_id)
             ELSE Append(insert_by_next_review(
                             SubSeq(sorted, 1, Len(sorted) - 1), card_id, states),
                         last)

RECURSIVE sort_by_next_review(_, _)
sort_by_next_review(due, states) ==
    IF due = <<>> THEN <<>>
    ELSE insert_by_next_review(
             sort_by_next_review(SubSeq(due, 1, Len(due) - 1), states),
             due[Len(due)], states)

get_due_cards_unsorted(items, states, t) ==
    SelectSeq(items, LAMBDA card_id : is_due(states[card_id], t))

\* Scheduler.get_due_cards, with items the order of self.card_states.items()
\* and t the clock is_due reads.
get_due_cards(items, states, t) ==
    sort_by_next_review(
        SelectSeq(items, LAMBDA card_id : is_due(states[card_id], t)), states)

Min(a, b) == IF a <= b THEN a ELSE b

get_new_cards_unfiltered(all_card_ids, limit, states) ==
    SubSeq(all_card_ids, 1, Min(limit, Len(all_card_ids)))

get_new_cards_cut_first(all_card_ids, limit, states) ==
    SelectSeq(SubSeq(all_card_ids, 1, Min(limit, Len(all_card_ids))),
              LAMBDA cid : cid \notin DOMAIN states)

\* Scheduler.get_new_cards, limit >= 0: new_cards[:limit]
get_new_cards(all_card_ids, limit, states) ==
    LET new_cards == SelectSeq(all_card_ids, LAMBDA cid : cid \notin DOMAIN states)
    IN  SubSeq(new_cards, 1, Min(limit, Len(new_cards)))

\* sum(1 for s in values if ...), sum(s.ease_factor for s in values)
RECURSIVE SumOver(_, _)
SumOver(keys, term) ==
    IF keys = {} THEN 0
    ELSE LET k == CHOOSE x \in keys : TRUE
         IN  term[k] + SumOver(keys \ {k}, term)

\* round(total / n, 2) in hundredths; a tie of the exact quotient may go
\* either way in floats.
round_quotient(total, n) ==
    LET q == total \div n
        r == total % n
    IN  IF 2 * r < n THEN {q}
        ELSE IF 2 * r > n THEN {q + 1}
        ELSE {q, q + 1}

ZeroStatistics ==
    [total_studied |-> 0, due_today |-> 0, mastered |-> 0, learning |-> 0,
     average_ease |-> 0]

count_statistics_mastered_two(states, t) ==
    LET keys == DOMAIN states
        due_count == SumOver(keys,
                         [k \in keys |-> IF is_due(states[k], t) THEN 1 ELSE 0])
        mastered == SumOver(keys,
                        [k \in keys |-> IF states[k].repetitions >= 2 THEN 1 ELSE 0])
        learning == Cardinality(keys) - mastered
        total == SumOver(keys, [k \in keys |-> states[k].ease_factor])
    IN  {[total_studied |-> Cardinality(keys), due_today |-> due_count,
          mastered |-> mastered, learning |-> learning, average_ease |-> avg] :
            avg \in round_quotient(total, Cardinality(keys))}

\* get_statistics on a store that is not empty
count_statistics(states, t) ==
    LET keys == DOMAIN states
        due_count == SumOver(keys,
                         [k \in keys |-> IF is_due(states[k], t) THEN 1 ELSE 0])
        mastered == SumOver(keys,
                        [k \in keys |-> IF states[k].repetitions >= 3 THEN 1 ELSE 0])
        learning == Cardinality(keys) - mastered
        total == SumOver(keys, [k \in keys |-> states[k].ease_factor])
    IN  {[total_studied |-> Cardinality(keys), due_today |-> due_count,
          mastered |-> mastered, learning |-> learning, average_ease |-> avg] :
            avg \in round_quotient(total, Cardinality(keys))}

get_statistics_default_ease(states, t) ==
    IF DOMAIN states = {}
    THEN {[ZeroStatistics EXCEPT !.average_ease = DEFAULT_EASE]}
    ELSE count_statistics(states, t)

\* Scheduler.get_statistics: the records it may return (one, but for a tie of
\* the average).
get_statistics(states, t) ==
    IF DOMAIN states = {}
    THEN {ZeroStatistics}
    ELSE count_statistics(states, t)

\* The calls that only read the store.
QueryOps == {"get_state", "get_due_cards", "get_new_cards", "get_statistics"}

call_get_state_setdefault(card_id) ==
    /\ call' = [op |-> "get_state", card_id |-> card_id,
                result |-> Some(current_state(card_id))]
    /\ card_states' = Upsert(card_states, card_id, current_state(card_id))
    /\ UNCHANGED <<now, file, reviews, ratings, host_vars>>

\* A call of Scheduler.get_state
call_get_state(card_id) ==
    /\ call' = [op |-> "get_state", card_id |-> card_id,
                result |-> get_state(card_id)]
    /\ UNCHANGED <<card_states, now, file, reviews, ratings, host_vars>>

\* A call of Scheduler.get_due_cards
call_get_due_cards ==
    /\ \E items \in ItemOrders(card_states) :
           call' = [op |-> "get_due_cards",
                    result |-> get_due_cards(items, card_states, now)]
    /\ UNCHANGED <<card_states, now, file, reviews, ratings, host_vars>>

\* A call of Scheduler.get_new_cards
call_get_new_cards(all_card_ids, limit) ==
    /\ call' = [op |-> "get_new_cards", all_card_ids |-> all_card_ids,
                limit |-> limit,
                result |-> get_new_cards(all_card_ids, limit, card_states)]
    /\ UNCHANGED <<card_states, now, file, reviews, ratings, host_vars>>

\* A call of Scheduler.get_statistics
call_get_statistics ==
    /\ \E stats \in get_statistics(card_states, now) :
           call' = [op |-> "get_statistics", result |-> stats]
    /\ UNCHANGED <<card_states, now, file, reviews, ratings, host_vars>>

----------------------------------------------------------------------------
(* The host *)

\* data.NETWORKS as [str(n.asn) for n in NETWORKS]: the catalog's card ids, in
\* its order ("2914" is in it twice, NTT Communications and JPNAP).
Catalog ==
    << "3356", "174", "2914", "1299", "3257", "6762", "6453", "701", "7018",
       "3491", "5511", "6830", "1239", "12956", "6939", "7922", "4134", "4837",
       "9002", "3320", "2516", "4766", "9498", "4323", "7843", "22773", "5650",
       "20115", "11351", "11426", "13335", "20940", "54113", "15133", "22822",
       "2906", "46489", "16509", "14618", "15169", "8075", "36351", "45102",
       "13414", "32934", "714", "396982", "19679", "6695", "1200", "24115",
       "8674", "2914", "24940", "13238", "14061", "63949", "20473", "132203",
       "398324" >>

\* limit=10 of StudyScreen._load_study_session
NEW_LIMIT == 10

----------------------------------------------------------------------------
(* The study screen.  A card of the screen is a Network, an entry of
   NETWORKS, named here by its place in Catalog; its card id is Catalog[n].
   Next to the fields of StudyScreen, study_screen keeps what the session was
   loaded from (due_ids, new_ids, candidates) and what it has done since
   (presented, reviewed). *)

Range(seq) == {seq[i] : i \in DOMAIN seq}

RECURSIVE Indices(_)
Indices(n) == IF n = 0 THEN <<>> ELSE Append(Indices(n - 1), n)

\* [n for n in NETWORKS if str(n.asn) in ids]
networks_in(ids) ==
    SelectSeq(Indices(Len(Catalog)), LAMBDA n : Catalog[n] \in Range(ids))

asn_of(networks) == [i \in DOMAIN networks |-> Catalog[networks[i]]]

\* StudyScreen._load_study_session, with items the order of the store's keys
_load_study_session(items) ==
    LET due_ids == get_due_cards(items, card_states, now)
        due_networks == networks_in(due_ids)
        all_ids == Catalog
        new_ids == get_new_cards(all_ids, NEW_LIMIT, card_states)
        new_networks == networks_in(new_ids)
        cards_to_study == due_networks \o new_networks
    IN  [mounted |-> TRUE, current_card |-> None,
         cards_to_study |-> cards_to_study, cards_completed |-> 0,
         total_cards |-> Len(cards_to_study), revealed |-> FALSE,
         ended |-> FALSE,
         due_ids |-> due_ids, new_ids |-> new_ids,
         candidates |-> asn_of(cards_to_study),
         presented |-> <<>>, reviewed |-> <<>>]

_show_next_card_no_pop(screen) ==
    IF screen.cards_to_study = <<>>
    THEN [screen EXCEPT !.ended = TRUE]
    ELSE [screen EXCEPT
             !.current_card = Some(Head(screen.cards_to_study)),
             !.revealed = FALSE,
             !.presented = Append(@, Catalog[Head(screen.cards_to_study)])]

\* StudyScreen._show_next_card
_show_next_card(screen) ==
    IF screen.cards_to_study = <<>>
    THEN [screen EXCEPT !.ended = TRUE]
    ELSE [screen EXCEPT
             !.current_card = Some(Head(screen.cards_to_study)),
             !.cards_to_study = Tail(screen.cards_to_study),
             !.revealed = FALSE,
             !.presented = Append(@, Catalog[Head(screen.cards_to_study)])]

\* The entries of the store that pass the filter of get_due_cards.
due_entries ==
    [c \in {k \in DOMAIN card_states : is_due(card_states[k], now)} |->
        card_states[c]]

\* StudyScreen.on_mount, the screen being pushed by MainMenuScreen.action_study
\* from the main menu.  Of the order of the store's keys only the order of
\* the due ones reaches get_due_cards' answer, so only that is drawn.
on_mount ==
    /\ ~study_screen.mounted
    /\ ~reset_screen
    /\ \E items \in ItemOrders(due_entries) :
           study_screen' = _show_next_card(_load_study_session(items))
    /\ UNCHANGED <<card_states, now, file, call, reviews, ratings,
                   tmp_file, save_pc, reset_screen>>

\* StudyScreen.action_reveal
action_reveal ==
    /\ study_screen.mounted
    /\ ~study_screen.revealed
    /\ study_screen.current_card # None
    /\ study_screen' = [study_screen EXCEPT !.revealed = TRUE]
    /\ UNCHANGED <<card_states, now, file, call, reviews, ratings,
                   tmp_file, save_pc, reset_screen>>

action_rate_no_save(rating) ==
    /\ study_screen.mounted
    /\ study_screen.revealed
    /\ study_screen.current_card # None
    /\ reviews < MaxSessionReviews
    /\ LET card_id == Catalog[study_screen.current_card[1]]
       IN  /\ review_card(card_id, rating, 0)
           /\ IF call'.raised
              THEN UNCHANGED <<file, study_screen>>
              ELSE /\ file' = file
                   /\ study_screen' =
                          _show_next_card(
                              [study_screen EXCEPT
                                  !.cards_completed = @ + 1,
                                  !.reviewed = Append(@, card_id)])
    /\ UNCHANGED <<tmp_file, save_pc, reset_screen>>

\* StudyScreen.action_rate_again, _hard, _good, _easy with _rate_card: the
\* review, the save, the count and the next card; an exception of
\* review_card ends the handler where it is raised.
action_rate(rating) ==
    /\ study_screen.mounted
    /\ study_screen.revealed
    /\ study_screen.current_card # None
    /\ reviews < MaxSessionReviews
    /\ LET card_id == Catalog[study_screen.current_card[1]]
       IN  /\ review_card(card_id, rating, 0)
           /\ IF call'.raised
              THEN UNCHANGED <<file, study_screen>>
              ELSE /\ file' = saved(card_states')
                   /\ study_screen' =
                          _show_next_card(
                              [study_screen EXCEPT
                                  !.cards_completed = @ + 1,
                                  !.reviewed = Append(@, card_id)])
    /\ UNCHANGED <<tmp_file, save_pc, reset_screen>>

\* StudyScreen.action_back
action_back ==
    /\ study_screen.mounted
    /\ study_screen' = NoScreen
    /\ UNCHANGED <<card_states, now, file, call, reviews, ratings,
                   tmp_file, save_pc, reset_screen>>

----------------------------------------------------------------------------

\* ASNMemoApp.save_progress
save_progress ==
    /\ file' = saved(card_states)
    /\ file' # file
    /\ UNCHANGED <<card_states, now, call, reviews, ratings, host_vars>>

\* ResetConfirmScreen.action_confirm
action_confirm ==
    /\ file' = AbsentFile
    /\ card_states' = EmptyStore
    /\ call' = [op |-> "reset"]
    /\ ratings' = [c \in CardIds |-> <<>>]
    /\ reset_screen' = FALSE
    /\ UNCHANGED <<now, reviews, study_screen, tmp_file, save_pc>>

action_cancel_resets ==
    /\ reset_screen
    /\ reset_screen' = FALSE
    /\ file' = AbsentFile
    /\ UNCHANGED <<card_states, now, call, reviews, ratings, study_screen,
                   tmp_file, save_pc>>

\* ResetConfirmScreen.action_cancel
action_cancel ==
    /\ reset_screen
    /\ reset_screen' = FALSE
    /\ UNCHANGED <<card_states, now, file, call, reviews, ratings, study_screen,
                   tmp_file, save_pc>>

\* MainMenuScreen.on_button_pressed, button "reset", the main menu being the
\* screen on top
on_button_pressed_reset ==
    /\ ~study_screen.mounted
    /\ ~reset_screen
    /\ reset_screen' = TRUE
    /\ UNCHANGED <<card_states, now, file, call, reviews, ratings, study_screen,
                   tmp_file, save_pc>>

----------------------------------------------------------------------------
(* ProgressManager.save step by step, and the process dying under it.
   save_pc: "idle" no save is running, "writing" the temporary file is open
   for writing, "written" it is written and closed, "down" the process is
   dead.  A file that is open for writing holds a prefix of the JSON text,
   which is never a JSON document: MalformedFile. *)

save_open_in_place ==
    /\ save_pc = "idle"
    /\ save_pc' = "writing"
    /\ file' = MalformedFile
    /\ UNCHANGED <<card_states, now, tmp_file, call, reviews, ratings,
                   study_screen, reset_screen>>

\* open(temp_file, "w")
save_open ==
    /\ save_pc = "idle"
    /\ save_pc' = "writing"
    /\ tmp_file' = MalformedFile
    /\ UNCHANGED <<card_states, now, file, call, reviews, ratings, study_screen,
                   reset_screen>>

\* json.dump(data, f, indent=2) and the end of the with block
save_dump ==
    /\ save_pc = "writing"
    /\ save_pc' = "written"
    /\ tmp_file' = saved(card_states)
    /\ UNCHANGED <<card_states, now, file, call, reviews, ratings, study_screen,
                   reset_screen>>

\* temp_file.rename(self.filepath)
save_rename ==
    /\ save_pc = "written"
    /\ save_pc' = "idle"
    /\ file' = tmp_file
    /\ tmp_file' = AbsentFile
    /\ UNCHANGED <<card_states, now, call, reviews, ratings, study_screen,
                   reset_screen>>

\* The process dies, at any step of a save or between two saves; the files
\* stay as they are.
Crash ==
    /\ save_pc # "down"
    /\ save_pc' = "down"
    /\ UNCHANGED <<card_states, now, file, tmp_file, call, reviews, ratings,
                   study_screen, reset_screen>>

\* ASNMemoApp.__init__ of the next run: load reads self.filepath only.
Restart ==
    /\ save_pc = "down"
    /\ save_pc' = "idle"
    /\ card_states' = load(file)
    /\ call' = NoCall
    /\ ratings' = [c \in CardIds |-> <<>>]
    /\ study_screen' = NoScreen
    /\ reset_screen' = FALSE
    /\ UNCHANGED <<now, file, tmp_file, reviews>>

\* ASNMemoApp.__init__ on whatever the progress file holds: an exception of
\* load leaves the constructor and the program does not come up.
Start ==
    /\ save_pc = "down"
    /\ call = NoCall
    /\ IF load_raises(file)
       THEN /\ call' = [op |-> "load", raised |-> TRUE]
            /\ UNCHANGED <<card_states, save_pc>>
       ELSE /\ call' = [op |-> "load", raised |-> FALSE]
            /\ card_states' = load(file)
            /\ save_pc' = "idle"
    /\ UNCHANGED <<now, file, reviews, ratings, study_screen, tmp_file,
                   reset_screen>>

\* Time passing between two inputs.  The answer to a query is about the
\* instant it was asked at: call forgets it when the clock moves on.
Tick ==
    /\ now < StartTime + MaxElapsed
    /\ now' = now + 1
    /\ call' = IF call.op \in QueryOps THEN NoCall ELSE call
    /\ UNCHANGED <<card_states, file, reviews, ratings, host_vars>>

----------------------------------------------------------------------------
(* Specifications *)

\* ASNMemoApp.__init__: the store is what load makes of the file found.
InitWith(f) ==
    /\ file = f
    /\ card_states = load(f)
    /\ now = StartTime
    /\ call = NoCall
    /\ reviews = 0
    /\ ratings = [c \in CardIds |-> <<>>]
    /\ study_screen = NoScreen
    /\ tmp_file = AbsentFile
    /\ save_pc = "idle"
    /\ reset_screen = FALSE

Init == \E f \in Files : InitWith(f)

Review ==
    \E card_id \in CardIds, rating \in Rating, d \in 0..1 :
        /\ reviews < MaxReviews
        /\ now + d <= StartTime + MaxElapsed
        /\ review_card(card_id, rating, d)
        /\ UNCHANGED <<file, host_vars>>

Next ==
    \/ Review
    \/ save_progress
    \/ action_confirm
    \/ Tick

Spec == Init /\ [][Next]_vars

\* First start: no progress file.
InitEmpty == InitWith(AbsentFile)

SpecEmpty == InitEmpty /\ [][Next]_vars

\* One card, reviewed over and over with qualifying ratings, from an empty store.
ReviewLong ==
    \E rating \in {GOOD, EASY} :
        /\ reviews < LongRun
        /\ review_card("174", rating, 0)
        /\ UNCHANGED <<file, host_vars>>

SpecLong == InitEmpty /\ [][ReviewLong]_vars

\* The scheduler with its read-only calls.
Query ==
    \/ \E card_id \in CardIds : call_get_state(card_id)
    \/ call_get_due_cards
    \/ call_get_new_cards(Catalog, NEW_LIMIT)
    \/ call_get_statistics

NextQuery ==
    \/ Review
    \/ action_confirm
    \/ Tick
    \/ Query

SpecQuery == Init /\ [][NextQuery]_vars

\* A study session: the screen is opened on the store of a first start or of
\* a progress file with both cards due, "174" before "3356", and the user
\* reveals and rates (again or good) until the session's reviews are spent.
SessionRatings == {AGAIN, GOOD}

SessionFile ==
    [kind |-> "json",
     cards |-> [c \in CardIds |->
                   IF c = "174"
                   THEN [ease_factor |-> 236, interval |-> 6, repetitions |-> 2,
                         next_review |-> isoformat(StartTime - TicksPerDay),
                         last_reviewed |->
                             Some(isoformat(StartTime - 7 * TicksPerDay))]
                   ELSE [ease_factor |-> 250, interval |-> 1, repetitions |-> 1,
                         next_review |-> isoformat(StartTime - 1),
                         last_reviewed |->
                             Some(isoformat(StartTime - 1 - TicksPerDay))]]]

InitSession == InitWith(AbsentFile) \/ InitWith(SessionFile)

\* "y" or the confirm button of the reset dialog
confirm_reset ==
    /\ reset_screen
    /\ action_confirm

NextSession ==
    \/ on_mount
    \/ action_reveal
    \/ \E rating \in SessionRatings : action_rate(rating)
    \/ action_back
    \/ on_button_pressed_reset
    \/ action_cancel
    \/ confirm_reset

SpecSession == InitSession /\ [][NextSession]_vars

\* Reviews and saves of a run that may die at any step and be started again.
\* A save runs in the one thread of the program: nothing is reviewed while
\* one is under way.
ReviewBetweenSaves ==
    /\ save_pc = "idle"
    /\ Review

NextSave ==
    \/ ReviewBetweenSaves
    \/ save_open
    \/ save_dump
    \/ save_rename
    \/ Crash
    \/ Restart

SpecSave == Init /\ [][NextSave]_vars

\* The scheduler started on progress files whose records may carry a
\* "card_id" field of their own, which no save of this program writes: here
\* the id of another card of the catalog.
OtherCardId == "2914"

ForeignIdRecords ==
    { [k \in DOMAIN r \cup {"card_id"} |->
          IF k = "card_id" THEN OtherCardId ELSE r[k]] : r \in FileRecords }

ForeignIdFiles ==
    { [kind |-> "json", cards |-> cs] :
        cs \in UNION { [S -> FileRecords \cup ForeignIdRecords] :
                          S \in SUBSET CardIds } }

InitForeignId == \E f \in ForeignIdFiles : InitWith(f)

SpecForeignId == InitForeignId /\ [][Next]_vars

\* Short study sessions: the program is started on the progress file of a
\* user who has studied all of the catalog but some of its last two cards,
\* with "3356" due or not, so that a session has zero to three candidates.
\* Each record is that of a card rated GOOD once, a day and a tick ago when
\* it is due and a tick ago when it is not.
StudiedRecord(due) ==
    [ease_factor |-> 250, interval |-> 1, repetitions |-> 1,
     next_review |-> isoformat(IF due THEN StartTime - 1
                               ELSE StartTime - 1 + TicksPerDay),
     last_reviewed |-> Some(isoformat(IF due THEN StartTime - 1 - TicksPerDay
                                      ELSE StartTime - 1))]

ShortFiles ==
    { [kind |-> "json",
       cards |-> [c \in Range(Catalog) \ new |-> StudiedRecord(c \in due)]] :
        due \in SUBSET {"3356"}, new \in SUBSET {"132203", "398324"} }

InitShort == \E f \in ShortFiles : InitWith(f)

rate_card ==
    /\ reviews < MaxShortReviews
    /\ \E rating \in Rating : action_rate(rating)

NextShort ==
    \/ on_mount
    \/ action_reveal
    \/ rate_card
    \/ action_back

SpecShort == InitShort /\ [][NextShort]_vars

\* The same with a user who keeps revealing and rating the card displayed.
SpecShortFair ==
    /\ SpecShort
    /\ WF_vars(action_reveal)
    /\ WF_vars(rate_card)

\* The program started on every content of the progress file, those that no
\* save writes included.
InitLoad ==
    /\ file \in LoadFiles
    /\ card_states = EmptyStore
    /\ now = StartTime
    /\ call = NoCall
    /\ reviews = 0
    /\ ratings = [c \in CardIds |-> <<>>]
    /\ study_screen = NoScreen
    /\ tmp_file = AbsentFile
    /\ save_pc = "down"
    /\ reset_screen = FALSE

SpecLoad == InitLoad /\ [][Start]_vars

\* get_new_cards on every list of at most MaxIds ids and every limit up to
\* MaxLimit, in every store a progress file can give.
IdPool == CardIds \cup {"2914"}

IdLists == UNION { [1..n -> IdPool] : n \in 0..MaxIds }

NewCards ==
    \E all_card_ids \in IdLists, limit \in 0..MaxLimit :
        call_get_new_cards(all_card_ids, limit)

SpecNew == Init /\ [][NewCards]_vars

----------------------------------------------------------------------------
(* Claims *)

\* The card the latest review_card call was about, as the store holds it.
Reviewed == card_states[call.card_id]

RECURSIVE TrailingRun(_)
\* Length of the trailing run of qualifying ratings (>= 3) of a sequence.
TrailingRun(seq) ==
    IF seq = <<>> THEN 0
    ELSE IF seq[Len(seq)] >= 3
         THEN 1 + TrailingRun(SubSeq(seq, 1, Len(seq) - 1))
         ELSE 0

\* C1: after review_card with a failing rating (AGAIN = 0 or HARD = 2) the
\* store holds the card with repetitions = 0 and interval = 1, whatever the
\* prior repetitions, interval and ease_factor were.
C1_FailingRatingResets ==
    (call.op = "review_card" /\ call.rating \in {0, 2}) =>
        /\ ~call.raised
        /\ call.card_id \in DOMAIN card_states
        /\ Reviewed.repetitions = 0
        /\ Reviewed.interval = 1

\* C1 witness: HARD on a card that had repetitions 2 and interval 6.
C1_Witness ==
    /\ call.op = "review_card"
    /\ call.rating = 2
    /\ call.present
    /\ call.prior.repetitions = 2
    /\ call.prior.interval = 6
    /\ Reviewed.repetitions = 0
    /\ Reviewed.interval = 1

\* C2: after review_card with a qualifying rating (GOOD = 3 or EASY = 5) on a
\* card whose repetitions were 0, a card not yet in the store included, the
\* store holds it with interval = 1 and repetitions = 1.
C2_FirstQualifying ==
    (call.op = "review_card" /\ call.rating \in {3, 5}
        /\ call.prior.repetitions = 0) =>
        /\ ~call.raised
        /\ call.card_id \in DOMAIN card_states
        /\ Reviewed.interval = 1
        /\ Reviewed.repetitions = 1

\* C2 witness: EASY on a card that was not in the store.
C2_Witness ==
    /\ call.op = "review_card"
    /\ call.rating = 5
    /\ ~call.present
    /\ Reviewed.interval = 1
    /\ Reviewed.repetitions = 1

\* C3: after review_card with a qualifying rating on a card whose repetitions
\* were 1, the store holds it with interval = 6 and repetitions = 2, whatever
\* the prior interval and ease_factor were.
C3_SecondQualifying ==
    (call.op = "review_card" /\ call.rating \in {3, 5}
        /\ call.prior.repetitions = 1) =>
        /\ ~call.raised
        /\ call.card_id \in DOMAIN card_states
        /\ Reviewed.interval = 6
        /\ Reviewed.repetitions = 2

\* C3 witness: GOOD on a card that had repetitions 1 with an interval other
\* than 1 and an ease other than the one a first review leaves.
C3_Witness ==
    /\ call.op = "review_card"
    /\ call.rating = 3
    /\ call.prior.repetitions = 1
    /\ call.prior.interval = 3
    /\ call.prior.ease_factor = 170
    /\ Reviewed.interval = 6
    /\ Reviewed.repetitions = 2

\* C4: after review_card with a qualifying rating on a card whose repetitions
\* were > 1, the stored interval is round(previous interval * previous ease),
\* the ease being the one held before the review.
C4_Original ==
    (call.op = "review_card" /\ call.rating \in {3, 5}
        /\ call.prior.repetitions > 1) =>
        /\ ~call.raised
        /\ call.card_id \in DOMAIN card_states
        /\ Reviewed.interval \in
               round_product(call.prior.interval, call.prior.ease_factor)

\* C5: from an empty store, after any sequence of review_card calls, every
\* stored CardState has ease_factor >= 1.3.
C5_EaseFloor ==
    \A c \in DOMAIN card_states : card_states[c].ease_factor >= 130

\* C5 witness: a card rated AGAIN twice from new, held at the floor
\* (2.5 - 0.8 - 0.8 is below it).
C5_Witness ==
    \E c \in DOMAIN card_states :
        /\ ratings[c] = <<0, 0>>
        /\ card_states[c].ease_factor = 130

\* C6: for every rating the store holds, after review_card, the ease
\* max(1.3, ease + d) with d = +0.10 (EASY), -0.14 (GOOD), -0.32 (HARD),
\* -0.80 (AGAIN).
C6_Original ==
    call.op = "review_card" =>
        /\ ~call.raised
        /\ call.card_id \in DOMAIN card_states
        /\ LET d == CASE call.rating = 5 -> 10
                      [] call.rating = 3 -> -14
                      [] call.rating = 2 -> -32
                      [] call.rating = 0 -> -80
           IN  Reviewed.ease_factor = Max(130, call.prior.ease_factor + d)

\* C7: after any review_card call the reviewed card is stored with
\* interval >= 1, for prior states built by reviews and prior states loaded
\* from the progress file alike.
C7_Original ==
    call.op = "review_card" =>
        /\ call.card_id \in DOMAIN card_states
        /\ Reviewed.interval >= 1

\* C8: every stored CardState has ease_factor >= 1.3, repetitions >= 0 and
\* interval >= 0, after load, after reviews and after reset.
C8_Original ==
    \A c \in DOMAIN card_states :
        /\ card_states[c].ease_factor >= 130
        /\ card_states[c].repetitions >= 0
        /\ card_states[c].interval >= 0

\* C9: for a card first reviewed from an empty store, the stored repetitions
\* equal the length of the trailing run of qualifying ratings among the
\* review_card calls made on it.
C9_Original ==
    \A c \in CardIds :
        ratings[c] # <<>> =>
            /\ c \in DOMAIN card_states
            /\ card_states[c].repetitions = TrailingRun(ratings[c])

\* C10: review_card never fails; on an absent card_id it inserts the update
\* of the default state (ease 2.5, interval 0, repetitions 0), on a present
\* one it replaces the entry by the update of the stored state, and the state
\* it returns is the stored one.
C10_Original ==
    call.op = "review_card" =>
        /\ ~call.raised
        /\ call.card_id \in DOMAIN card_states
        /\ Reviewed = call.result
        /\ ~call.present =>
               /\ call.prior.ease_factor = 250
               /\ call.prior.interval = 0
               /\ call.prior.repetitions = 0
        /\ Reviewed.card_id = call.card_id
        /\ Reviewed.ease_factor = new_ease(call.prior, call.rating)
        /\ Reviewed.repetitions = new_repetitions(call.prior, call.rating)
        /\ Reviewed.interval \in new_interval(call.prior, call.rating)

C12_NewCards ==
    call.op = "get_new_cards" =>
        LET all_ids == call.all_card_ids
            result == call.result
            absent == {i \in DOMAIN all_ids : all_ids[i] \notin DOMAIN card_states}
            k == Cardinality(absent)
        IN  /\ Len(result) = Min(call.limit, k)
            /\ \A j \in DOMAIN result :
                   \E i \in absent :
                       /\ Cardinality({h \in absent : h < i}) = j - 1
                       /\ result[j] = all_ids[i]

C12_Witness ==
    /\ call.op = "get_new_cards"
    /\ Len(call.all_card_ids) = 3
    /\ Len(call.result) = 1
    /\ call.all_card_ids[1] \in DOMAIN card_states
    /\ call.all_card_ids[2] \notin DOMAIN card_states
    /\ call.all_card_ids[3] \notin DOMAIN card_states

\* C13: only review_card and the reset change the store; the four queries
\* leave it as it is, and get_state of a card that is not in the store answers
\* None and adds no entry.
C13_QueriesKeepStore ==
    [][ /\ card_states' # card_states => call'.op \in {"review_card", "reset"}
        /\ call'.op \in QueryOps => card_states' = card_states
        /\ (call'.op = "get_state" /\ call'.card_id \notin DOMAIN card_states)
               => (call'.result = None /\ call'.card_id \notin DOMAIN card_states')
      ]_vars

C13_Witness ==
    /\ call.op = "get_state"
    /\ call.card_id \notin DOMAIN card_states
    /\ call.result = None
    /\ DOMAIN card_states # {}
    /\ reviews > 0

C15_EmptyStatistics ==
    (call.op = "get_statistics" /\ DOMAIN card_states = {}) =>
        /\ call.result.total_studied = 0
        /\ call.result.due_today = 0
        /\ call.result.mastered = 0
        /\ call.result.learning = 0
        /\ call.result.average_ease = 0

C15_Witness ==
    /\ call.op = "get_statistics"
    /\ DOMAIN card_states = {}
    /\ file = AbsentFile
    /\ reviews > 0

\* C16: the candidate list of a loaded study session is, as a sequence, what
\* get_due_cards returned followed by what get_new_cards(all_ids, limit=10)
\* returned.
C16_Original ==
    study_screen.mounted =>
        study_screen.candidates = study_screen.due_ids \o study_screen.new_ids

\* C17: while the study screen is open, no card id is presented twice and
\* none is passed to review_card twice.
C17_Original ==
    study_screen.mounted =>
        /\ \A i, j \in DOMAIN study_screen.presented :
               i # j => study_screen.presented[i] # study_screen.presented[j]
        /\ \A i, j \in DOMAIN study_screen.reviewed :
               i # j => study_screen.reviewed[i] # study_screen.reviewed[j]

\* C18: right after review_card(c, r) has returned, whatever r, the card has
\* interval >= 1 and is not due.
C18_Original ==
    (call.op = "review_card" /\ ~call.raised
         /\ Reviewed.last_reviewed = Some(now)) =>
        /\ Reviewed.interval >= 1
        /\ ~is_due(Reviewed, now)

\* C19: whatever step a save or a crash is at, the progress file changes only
\* by the rename, from the previous snapshot to the complete new one, and a
\* restart loads what the progress file holds, whatever the temporary file
\* holds.
C19_AtomicSave ==
    [][ /\ file' # file =>
               /\ save_pc = "written"
               /\ file' = saved(card_states)
               /\ file'.kind = "json"
        /\ (save_pc = "down" /\ save_pc' = "idle") => card_states' = load(file)
      ]_vars

C19_Witness ==
    /\ save_pc = "idle"
    /\ call = NoCall
    /\ reviews > 0
    /\ tmp_file = MalformedFile
    /\ file.kind = "json"
    /\ card_states = load(file)
    /\ DOMAIN card_states # {}

\* C20: saving a store that reviews have made and loading what was saved
\* gives the same card ids and, for each of them, the same card_id,
\* ease_factor, interval, repetitions, next_review and last_reviewed (None
\* included).
C20_RoundTrip ==
    /\ load(saved(card_states)) = card_states
    /\ file = saved(card_states) => load(file) = card_states

C20_Witness ==
    /\ file = saved(card_states)
    /\ reviews > 0
    /\ \E c \in DOMAIN card_states : card_states[c].last_reviewed = None
    /\ \E c \in DOMAIN card_states :
           /\ card_states[c].last_reviewed # None
           /\ card_states[c].last_reviewed[1] % TicksPerDay # 0
           /\ card_states[c].next_review % TicksPerDay # 0

\* C21: load never raises; a missing file, and a file whose content is
\* corrupt, malformed, unreadable or JSON of another shape than the program
\* writes, gives the empty store.
C21_Original ==
    call.op = "load" =>
        /\ ~call.raised
        /\ file.kind # "json" => card_states = EmptyStore

\* C22: of the per-card records of a progress file, load skips exactly those
\* that are invalid (a required field missing, a field that cannot be parsed)
\* and stores every valid one; an invalid record is never fatal to the load.
C22_Original ==
    (call.op = "load" /\ file.kind = "json") =>
        LET valid == {c \in DOMAIN file.cards :
                         /\ file.cards[c] # NotAnObject
                         /\ RequiredKeys \ {"card_id"} \subseteq DOMAIN file.cards[c]
                         /\ is_iso_text(file.cards[c].next_review)
                         /\ \/ "last_reviewed" \notin DOMAIN file.cards[c]
                            \/ file.cards[c].last_reviewed = None
                            \/ is_iso_text(file.cards[c].last_reviewed[1])}
        IN  /\ ~call.raised
            /\ DOMAIN card_states = valid
            /\ \A c \in valid :
                   card_states[c] = from_dict(WithCardId(c, file.cards[c]))

\* C23: a card id that has an entry keeps one through every review, query,
\* save and session, and get_new_cards does not return it again: the keys of
\* the store are lost only in the reset, all at once.
C23_KeysOnlyGrow ==
    [][ /\ ~(DOMAIN card_states \subseteq DOMAIN card_states') =>
               /\ reset_screen
               /\ card_states' = EmptyStore
               /\ file' = AbsentFile
        /\ (~study_screen.mounted /\ study_screen'.mounted) =>
               Range(study_screen'.new_ids) \cap DOMAIN card_states = {}
        /\ get_new_cards(Catalog, Len(Catalog), card_states') =
               SelectSeq(Catalog, LAMBDA cid : cid \notin DOMAIN card_states')
      ]_vars

C23_Witness ==
    /\ study_screen.mounted
    /\ study_screen.reviewed = <<>>
    /\ call.op = "review_card"
    /\ call.card_id \in DOMAIN card_states
    /\ Cardinality(DOMAIN card_states) >= 3
    /\ Len(study_screen.new_ids) = NEW_LIMIT
    /\ Range(study_screen.new_ids) \cap DOMAIN card_states = {}

\* C24: a confirmed reset leaves the scheduler's store empty and the progress
\* file absent, so that a load gives the empty store, nothing is due and every
\* id of the catalog is new; leaving the dialog by cancel changes neither the
\* store nor the file.
C24_Reset ==
    [][ /\ call'.op = "reset" =>
               /\ card_states' = EmptyStore
               /\ file' = AbsentFile
               /\ load(file') = EmptyStore
               /\ \A items \in ItemOrders(card_states') :
                      get_due_cards(items, card_states', now') = <<>>
               /\ get_new_cards(Catalog, Len(Catalog), card_states') = Catalog
        /\ (reset_screen /\ ~reset_screen' /\ call' = call) =>
               /\ card_states' = card_states
               /\ file' = file
      ]_vars

C24_Witness ==
    /\ call.op = "reset"
    /\ reviews > 0
    /\ study_screen.mounted
    /\ study_screen.due_ids = <<>>
    /\ study_screen.new_ids = SubSeq(Catalog, 1, NEW_LIMIT)

\* C25: once a rating of a study session has been processed, the progress
\* file holds the store as it is in memory, card for card.
C25_SavedAfterRating ==
    (study_screen.mounted /\ study_screen.reviewed # <<>>) =>
        /\ file = saved(card_states)
        /\ load(file) = card_states

C25_Witness ==
    /\ study_screen.mounted
    /\ Len(study_screen.reviewed) >= 2
    /\ study_screen.current_card # None
    /\ ~study_screen.revealed
    /\ file = saved(card_states)
    /\ load(file) = card_states
    /\ Cardinality(DOMAIN card_states) >= 2

\* C26: after a review_card call the stored state has last_reviewed set, to
\* the time of the review, and next_review is last_reviewed plus interval
\* days: both are taken from one instant.
C26_Original ==
    (call.op = "review_card" /\ ~call.raised) =>
        /\ Reviewed.last_reviewed # None
        /\ Reviewed.next_review =
               Reviewed.last_reviewed[1] + Reviewed.interval * TicksPerDay

\* C27: from an empty store, review_card("174", GOOD) gives interval 1,
\* repetitions 1 and ease 2.36, and a second review_card("174", GOOD) gives
\* interval 6 and repetitions 2.
C27_TwoGoodReviews ==
    (call.op = "review_card" /\ call.card_id = "174" /\ ~call.raised) =>
        /\ ratings["174"] = <<GOOD>> =>
               /\ Reviewed.interval = 1
               /\ Reviewed.repetitions = 1
               /\ Reviewed.ease_factor = 236
        /\ ratings["174"] = <<GOOD, GOOD>> =>
               /\ Reviewed.interval = 6
               /\ Reviewed.repetitions = 2

C27_Witness ==
    /\ call.op = "review_card"
    /\ call.card_id = "174"
    /\ ratings["174"] = <<GOOD, GOOD>>
    /\ call.prior.ease_factor = 236
    /\ call.prior.interval = 1
    /\ Reviewed.interval = 6
    /\ Reviewed.repetitions = 2

\* C28: a card with repetitions 2, interval 6 and ease 2.36 rated EASY gets
\* ease 2.46, interval 14 and repetitions 3, and counts as mastered; rated
\* AGAIN next it gets repetitions 0, interval 1 and ease 1.66 (not below 1.3),
\* and no longer counts as mastered.
C28_EasyThenAgain ==
    (call.op = "review_card" /\ ~call.raised) =>
        LET mastered_now ==
                {stats.mastered : stats \in get_statistics(card_states, now)}
            mastered_without ==
                {stats.mastered :
                    stats \in get_statistics(
                                  [c \in DOMAIN card_states \ {call.card_id} |->
                                      card_states[c]], now)}
        IN  /\ (/\ call.prior.repetitions = 2
                /\ call.prior.interval = 6
                /\ call.prior.ease_factor = 236
                /\ call.rating = EASY) =>
                   /\ Reviewed.ease_factor = 246
                   /\ Reviewed.interval = 14
                   /\ Reviewed.repetitions = 3
                   /\ \A m \in mastered_now : \A w \in mastered_without : m = w + 1
            /\ (/\ call.prior.repetitions = 3
                /\ call.prior.interval = 14
                /\ call.prior.ease_factor = 246
                /\ call.rating = AGAIN) =>
                   /\ Reviewed.repetitions = 0
                   /\ Reviewed.interval = 1
                   /\ Reviewed.ease_factor = 166
                   /\ Reviewed.ease_factor >= MIN_EASE
                   /\ \A m \in mastered_now : \A w \in mastered_without : m = w

C28_Witness ==
    /\ call.op = "review_card"
    /\ ratings[call.card_id] = <<EASY, AGAIN>>
    /\ call.prior.repetitions = 3
    /\ call.prior.interval = 14
    /\ call.prior.ease_factor = 246
    /\ Reviewed.repetitions = 0
    /\ Reviewed.ease_factor = 166

\* C29: a study session has at most 10 cards that were not in the store when
\* it was loaded, and at most len(get_due_cards()) + 10 candidates.
C29_Original ==
    study_screen.mounted =>
        /\ Cardinality(Range(study_screen.candidates)
                           \ Range(study_screen.due_ids)) <= NEW_LIMIT
        /\ Len(study_screen.candidates) <= Len(study_screen.due_ids) + NEW_LIMIT

\* C30: review_card(c, r) changes the entry of c only: the entry of every
\* other card stays as it is, and no key but c is added or removed.
C30_ReviewChangesOneEntry ==
    [][ reviews' = reviews + 1 =>
            /\ DOMAIN card_states' \ {call'.card_id} =
                   DOMAIN card_states \ {call'.card_id}
            /\ \A c \in DOMAIN card_states \ {call'.card_id} :
                   card_states'[c] = card_states[c]
            /\ ~call'.raised =>
                   /\ call'.card_id \in DOMAIN card_states'
                   /\ card_states'[call'.card_id] = call'.result
      ]_vars

C30_Witness ==
    /\ call.op = "review_card"
    /\ ~call.raised
    /\ ~call.present
    /\ Cardinality(DOMAIN card_states) = 2
    /\ \E c \in DOMAIN card_states \ {call.card_id} :
           /\ card_states[c].last_reviewed = None
           /\ card_states[c].next_review < now

----------------------------------------------------------------------------

\* A card is on display in the study screen: one was shown and the
\* session-complete view has not replaced it.
displayed ==
    /\ study_screen.mounted
    /\ ~study_screen.ended
    /\ study_screen.current_card # None

\* C31: in a study session review_card is invoked only for the card on
\* display and only after its answer was revealed; a step of a session
\* that changes the store, the file or the count of completed cards is such
\* a review; and showing the next card hides the answer again.
C31_Original ==
    [][ (study_screen.mounted /\ study_screen'.mounted) =>
            /\ ( \/ reviews' # reviews
                 \/ card_states' # card_states
                 \/ file' # file
                 \/ study_screen'.cards_completed
                        # study_screen.cards_completed ) =>
                   /\ displayed
                   /\ study_screen.revealed
                   /\ call'.op = "review_card"
                   /\ call'.card_id = Catalog[study_screen.current_card[1]]
            /\ study_screen'.presented # study_screen.presented =>
                   ~study_screen'.revealed
      ]_vars

\* What of C31 holds: a review in a session is of the card last shown, made
\* after the reveal, and the next card is shown with its answer hidden.
C31_LastShown ==
    [][ (study_screen.mounted /\ study_screen'.mounted) =>
            /\ ( \/ reviews' # reviews
                 \/ card_states' # card_states
                 \/ file' # file
                 \/ study_screen'.cards_completed
                        # study_screen.cards_completed ) =>
                   /\ study_screen.current_card # None
                   /\ study_screen.revealed
                   /\ call'.op = "review_card"
                   /\ call'.card_id = Catalog[study_screen.current_card[1]]
            /\ study_screen'.presented # study_screen.presented =>
                   ~study_screen'.revealed
      ]_vars

\* C32: in every state of a study session cards_completed <= total_cards and
\* cards_completed + the candidates still queued + (1 if a card is displayed
\* and unrated) = total_cards; no rating after the session is complete
\* reviews a card or counts, so that a complete session has counted each of
\* its candidates once.
C32_Original ==
    study_screen.mounted =>
        /\ study_screen.cards_completed <= study_screen.total_cards
        /\ study_screen.cards_completed + Len(study_screen.cards_to_study)
               + (IF displayed THEN 1 ELSE 0) = study_screen.total_cards
        /\ study_screen.ended =>
               /\ study_screen.cards_completed = study_screen.total_cards
               /\ Len(study_screen.reviewed) = study_screen.total_cards

\* What of C32 holds: the account is right until the session is complete.
C32_UntilComplete ==
    (study_screen.mounted /\ ~study_screen.ended) =>
        /\ study_screen.cards_completed < study_screen.total_cards
        /\ study_screen.cards_completed + Len(study_screen.cards_to_study)
               + 1 = study_screen.total_cards

\* C33: a session loaded with n candidates becomes complete at its n-th
\* rating and not before, a session loaded with no candidate is complete
\* when it is mounted, without a review, and a session whose user keeps
\* revealing and rating the card displayed becomes complete (or is left).
C33_SessionTerminates ==
    /\ [][ ( /\ study_screen'.mounted
             /\ study_screen'.ended
             /\ ~(study_screen.mounted /\ study_screen.ended) ) =>
               /\ Len(study_screen'.reviewed) = study_screen'.total_cards
               /\ study_screen'.cards_completed = study_screen'.total_cards
               /\ study_screen'.total_cards = 0 =>
                      /\ ~study_screen.mounted
                      /\ reviews' = reviews
                      /\ card_states' = card_states
         ]_vars
    /\ []( (study_screen.mounted /\ ~study_screen.ended) =>
               Len(study_screen.reviewed) < study_screen.total_cards )
    /\ (study_screen.mounted /\ ~study_screen.ended)
           ~> (~study_screen.mounted \/ study_screen.ended)

C33_Witness ==
    /\ study_screen.mounted
    /\ study_screen.ended
    /\ study_screen.total_cards = 3
    /\ study_screen.cards_completed = 3
    /\ study_screen.reviewed = <<"3356", "132203", "398324">>
    /\ reviews = 3

\* A session loaded with no candidate, complete without a review.
C33_WitnessEmpty ==
    /\ study_screen.mounted
    /\ study_screen.ended
    /\ study_screen.total_cards = 0
    /\ study_screen.reviewed = <<>>
    /\ reviews = 0

\* C34: for a card reviewed only from an empty store, each qualifying review
\* made when its repetitions are >= 1 leaves it with a larger interval than it
\* had (1, 6, round(6 * ease) >= 8, ...), and a card with repetitions >= 2
\* has an interval >= 6.
C34_Original ==
    /\ ( /\ call.op = "review_card"
         /\ call.rating >= GOOD
         /\ call.prior.repetitions >= 1 ) =>
           /\ call.card_id \in DOMAIN card_states
           /\ Reviewed.interval > call.prior.interval
           /\ call.prior.repetitions = 2 => Reviewed.interval >= 8
    /\ \A c \in DOMAIN card_states :
           card_states[c].repetitions >= 2 => card_states[c].interval >= 6

\* What of C34 holds: the same of each such review that returns.
C34_WhenReturns ==
    /\ ( /\ call.op = "review_card"
         /\ ~call.raised
         /\ call.rating >= GOOD
         /\ call.prior.repetitions >= 1 ) =>
           /\ call.card_id \in DOMAIN card_states
           /\ Reviewed.interval > call.prior.interval
           /\ call.prior.repetitions = 2 => Reviewed.interval >= 8
    /\ \A c \in DOMAIN card_states :
           card_states[c].repetitions >= 2 => card_states[c].interval >= 6

\* C35: in every state of the store each key k maps to a CardState whose
\* card_id is k: review_card keeps the id of the card it reviews, and load
\* takes each entry's card_id from its key in the file's "cards" object,
\* whatever "card_id" field the record carries.
C35_CardIdIsKey ==
    \A k \in DOMAIN card_states : card_states[k].card_id = k

\* A card loaded from a record that carries the id of another card, and
\* reviewed since, with the record still in the file.
C35_Witness ==
    /\ call.op = "review_card"
    /\ ~call.raised
    /\ call.present
    /\ file.kind = "json"
    /\ call.card_id \in DOMAIN file.cards
    /\ "card_id" \in DOMAIN file.cards[call.card_id]
    /\ file.cards[call.card_id].card_id # call.card_id
    /\ Reviewed.card_id = call.card_id
    /\ Cardinality(DOMAIN card_states) = 2

====
